---- MODULE Spec2Model ----
(***************************************************************************)
(* TransitionX (src/src/transitionx.js): a state object, a registry of     *)
(* named transition functions and two stacks of shallow-copied snapshots.  *)
(*                                                                         *)
(* JavaScript objects have identity, so the state and every snapshot are   *)
(* heap objects named by a reference; `{ ...o }` allocates a new object.   *)
(* The invoker returned by createTransition is an async function: its body *)
(* runs synchronously up to the `await` of line 88 and its continuation    *)
(* runs later as a microtask. The function returned by wrap is async too:  *)
(* it awaits the procedure it wraps, whose steps are calls through the     *)
(* bundle it was handed.                                                   *)
(***************************************************************************)
EXTENDS Integers, Sequences, FiniteSets, Bags, TLC

\* ---------------------------------------------------------------- bounds
\* The snapshots on the two stacks and the invoker calls suspended at
\* their await are at most this many together: saveState and the invoker
\* are not called beyond it.
MaxLoad == 3

\* ------------------------------------------------------ values and errors
Undefined == "undefined"
NoError == "none"

\* The message of the Error thrown at line 40.
NoHistoryError == "No saved state to rollback to."
\* The message of the Error thrown at line 53.
NoRedoError == "No state to redo."
\* The message built at line 95.
UnknownTransitionError(name) == "Transition \"" \o name \o "\" is not defined."

\* The initial state of the test suite.
initialState == [hunger |-> "hungry", energy |-> "low"]

\* ------------------------------------------------- transition functions
\* The registry handed to the constructor: eat and rest are the test
\* suite's; choke and faint are a synchronous and an asynchronous
\* transition that mutate the state and then fail.
callerTransitions ==
    [eat |-> "eat", rest |-> "rest", choke |-> "choke", faint |-> "faint"]

\* Property names every plain object inherits from Object.prototype.
ObjectPrototype == {"toString"}

\* The names the callers of the model pass to the invoker.
Names == {"eat", "rest", "choke", "faint", "toString", "fly"}

\* Transition functions whose asynchronous ones assign before they return
\* instead of in their timer callback.
SyncAssignEager(fn, rec) ==
    CASE fn = "eat"   -> [rec EXCEPT !.hunger = "satisfied"]
      [] fn = "choke" -> [rec EXCEPT !.hunger = "hungry"]
      [] fn = "rest"  -> [rec EXCEPT !.energy = "high"]
      [] fn = "faint" -> [rec EXCEPT !.energy = "low"]
      [] fn = "feast" -> [rec EXCEPT !.hunger = "satisfied"]
      [] OTHER        -> rec

\* What a transition function does before it returns: eat assigns hunger,
\* choke assigns hunger and then throws; feast assigns hunger (and fills
\* the stomach, see NestedAssign); the others assign nothing yet.
SyncAssign(fn, rec) ==
    CASE fn = "eat"   -> [rec EXCEPT !.hunger = "satisfied"]
      [] fn = "choke" -> [rec EXCEPT !.hunger = "hungry"]
      [] fn = "feast" -> [rec EXCEPT !.hunger = "satisfied"]
      [] OTHER        -> rec

\* What a transition function assigns in the nested object a field of the
\* state object it was given refers to: feast fills the stomach in place
\* (state.stomach.contents = 'meal').
NestedAssign(fn, rec, nh) ==
    IF fn = "feast" THEN [nh EXCEPT ![rec.stomach] = "meal"] ELSE nh

\* How the call of a transition function completes: it returns a value
\* that is no promise, returns a pending promise, or throws.
Completion(fn) ==
    CASE fn \in {"rest", "faint"} -> "promise"
      [] fn = "choke"             -> "throw"
      [] OTHER                    -> "value"

\* What the timer callback of an asynchronous transition assigns right
\* before it settles the promise.
TimerAssign(fn, rec) ==
    CASE fn = "rest"  -> [rec EXCEPT !.energy = "high"]
      [] fn = "faint" -> [rec EXCEPT !.energy = "low"]
      [] OTHER        -> rec

\* How the timer callback settles the promise.
TimerSettles(fn) == IF fn = "faint" THEN "rejected" ELSE "fulfilled"

\* The error a wrapped procedure raises of its own.
ProcedureError == "procedure failed"

\* The error a failing transition function raises.
ErrorOf(fn) ==
    CASE fn = "choke" -> "choked"
      [] fn = "faint" -> "fainted"
      [] OTHER        -> NoError

\* ------------------------------------------------------------------ state
VARIABLES
    heap,          \* reference -> the object's top-level fields
    state,         \* this.state: a reference
    transitions,   \* this.transitions
    stateHistory,  \* this.stateHistory: sequence of references, top last
    redoStack,     \* this.redoStack: sequence of references, top last
    timers,        \* invoker calls suspended at line 88 on a pending
                   \* promise: a bag of [fn, obj], obj the state object
                   \* the timer callback of fn will assign to
    microtasks,    \* continuations of invoker calls whose await is over,
                   \* in the order they were queued: [inner, fn, obj]
    last,          \* the most recent call or continuation and how it
                   \* failed, if it did
    presave,       \* history variable: for each snapshot now on the undo
                   \* stack, pushed by saveState or by redoState, the
                   \* fields the state had when it was pushed
    rolledBack,    \* history variable: the rollbackState calls that
                   \* succeeded minus the redoState calls that succeeded
                   \* since the latest saveState, or since construction
    proc,          \* the call of a wrapped function in progress:
                   \* [pc, state, error], pc where the procedure is,
                   \* state the `state` of its bundle (a reference),
                   \* error what it failed with
    debug,         \* this.debug
    console,       \* the lines the most recent step wrote with console.log
    nested,        \* reference -> the contents of a nested object, which
                   \* a field of a state object or snapshot refers to
    objects        \* what the constructor was called with and who else
                   \* uses it: [initialState, other, transitions, shared],
                   \* the caller's initial-state object (a reference, 0 when
                   \* the model does not follow it), the state object of a
                   \* second manager built with the same arguments
                   \* (likewise), the contents of the caller's registry
                   \* object, and whether this.transitions is that object

vars == <<heap, state, transitions, stateHistory, redoStack, timers,
          microtasks, last, presave, rolledBack, proc, debug, console, nested,
          objects>>

Range(s) == {s[i] : i \in DOMAIN s}

\* The objects timer callbacks, queued continuations, the bundle of the
\* wrapped procedure, the caller and a second manager still refer to.
Held(tm, mt, pr, ob) ==
    ({e.obj : e \in BagToSet(tm)} \cup {mt[i].obj : i \in DOMAIN mt}
        \cup {pr.state, ob.initialState, ob.other}) \ {0}

\* A reference no object of h has.
NewRef(h) == CHOOSE r \in 1..(Cardinality(DOMAIN h) + 1) : r \notin DOMAIN h

\* h with a new object holding rec at reference r.
Alloc(h, r, rec) == [x \in (DOMAIN h) \cup {r} |-> IF x = r THEN rec ELSE h[x]]

\* The elements of a set of references in increasing order.
RECURSIVE Sorted(_)
Sorted(S) ==
    IF S = {} THEN <<>>
    ELSE LET least == CHOOSE x \in S : \A y \in S : x <= y
         IN <<least>> \o Sorted(S \ {least})

\* A sequence without the later occurrences of its elements.
RECURSIVE Distinct(_)
Distinct(s) ==
    IF s = <<>> THEN <<>>
    ELSE LET d == Distinct(SubSeq(s, 1, Len(s) - 1))
         IN IF s[Len(s)] \in Range(d) THEN d ELSE Append(d, s[Len(s)])

\* References are names only: no operation reads the value of one. After
\* every step the objects still referred to are renamed 1, 2, ... in the
\* order state, undo stack, redo stack, then the objects only others
\* hold (which keep their relative order), and every other object is
\* dropped, as the garbage collector does. Aliases stay aliases.
Roots(st, hist, redo, tm, mt, pr, ob) ==
    Distinct(<<st>> \o hist \o redo
        \o Sorted(Held(tm, mt, pr, ob)
                     \ ({st} \cup Range(hist) \cup Range(redo))))

Renamed(roots, r) ==
    IF r = 0 THEN 0 ELSE CHOOSE n \in DOMAIN roots : roots[n] = r

RenamedHeap(roots, h) == [n \in DOMAIN roots |-> h[roots[n]]]

RenamedSeq(roots, s) == [i \in DOMAIN s |-> Renamed(roots, s[i])]

RenamedBag(roots, tm) ==
    LET old(e) == CHOOSE x \in BagToSet(tm) :
                     [x EXCEPT !.obj = Renamed(roots, x.obj)] = e
    IN [e \in {[x EXCEPT !.obj = Renamed(roots, x.obj)] : x \in BagToSet(tm)}
          |-> tm[old(e)]]

\* The manager as one value: what the history operations read and write,
\* the nested objects its state and snapshots refer to, the error the
\* last operation threw and the lines it wrote to the console.
Manager == [heap |-> heap, state |-> state, stateHistory |-> stateHistory,
            redoStack |-> redoStack, threw |-> NoError, debug |-> debug,
            console |-> <<>>, nested |-> nested]

Pop(s) == SubSeq(s, 1, Len(s) - 1)
Top(s) == s[Len(s)]

\* context.transitions[name]: an own property of the registry, else a
\* property inherited from Object.prototype, else undefined.
Lookup(reg, name) ==
    IF name \in DOMAIN reg THEN reg[name]
    ELSE IF name \in ObjectPrototype THEN "Object.prototype." \o name
    ELSE Undefined

\* ------------------------------------------------------------- operations
\* A log that, when debug is on, stores the copy it was given to print.
logStores(m, message, data) ==
    IF m.debug
    THEN LET copy == NewRef(m.heap) IN
         [m EXCEPT !.console = @ \o (IF data THEN <<message, "data">>
                                              ELSE <<message>>),
                   !.heap = Alloc(m.heap, copy, m.heap[m.state]),
                   !.stateHistory = IF data THEN Append(@, copy) ELSE @]
    ELSE m

\* log(message, data): when debug is on, one line for the message and one
\* for the data, if any; nothing else.
log(m, message, data) ==
    IF m.debug
    THEN [m EXCEPT !.console = @ \o (IF data THEN <<message, "data">>
                                              ELSE <<message>>)]
    ELSE m

\* saveState() that keeps the redo stack.
saveStateKeepsRedo(m) ==
    LET copy == NewRef(m.heap) IN
    [m EXCEPT !.heap = Alloc(m.heap, copy, m.heap[m.state]),
              !.stateHistory = Append(m.stateHistory, copy),
              !.threw = NoError]

\* saveState() that copies the nested object too (a deep copy).
saveStateDeep(m) ==
    LET copy == NewRef(m.heap)
        inner == Len(m.nested) + 1
    IN [m EXCEPT !.heap = Alloc(m.heap, copy,
                                [m.heap[m.state] EXCEPT !.stomach = inner]),
                 !.nested = Append(@, m.nested[m.heap[m.state].stomach]),
                 !.stateHistory = Append(m.stateHistory, copy),
                 !.redoStack = <<>>,
                 !.threw = NoError]

\* saveState() that pushes the state object itself, not a copy of it.
saveStateShares(m) ==
    [m EXCEPT !.stateHistory = Append(m.stateHistory, m.state),
              !.redoStack = <<>>,
              !.threw = NoError]

\* saveState(): push a copy of the state, clear the redo stack.
saveState(m) ==
    LET copy == NewRef(m.heap) IN
    log([m EXCEPT !.heap = Alloc(m.heap, copy, m.heap[m.state]),
                  !.stateHistory = Append(m.stateHistory, copy),
                  !.redoStack = <<>>,
                  !.threw = NoError],
        "State saved to history", TRUE)

\* rollbackState() that takes the oldest snapshot (shift() for pop()).
rollbackStateShift(m) ==
    IF Len(m.stateHistory) > 0
    THEN LET previousState == m.stateHistory[1]
             pushed == NewRef(m.heap)
             h1 == Alloc(m.heap, pushed, m.heap[m.state])
             restored == NewRef(h1)
         IN [m EXCEPT !.heap = Alloc(h1, restored, h1[previousState]),
                      !.stateHistory = SubSeq(m.stateHistory, 2, Len(m.stateHistory)),
                      !.redoStack = Append(m.redoStack, pushed),
                      !.state = restored,
                      !.threw = NoError]
    ELSE [m EXCEPT !.threw = "No saved state to rollback to."]

\* rollbackState() that puts the popped snapshot, not the state, on the
\* redo stack.
rollbackStatePushesPopped(m) ==
    IF Len(m.stateHistory) > 0
    THEN LET previousState == m.stateHistory[Len(m.stateHistory)]
             pushed == NewRef(m.heap)
             h1 == Alloc(m.heap, pushed, m.heap[previousState])
             restored == NewRef(h1)
         IN [m EXCEPT !.heap = Alloc(h1, restored, h1[previousState]),
                      !.stateHistory = SubSeq(m.stateHistory, 1, Len(m.stateHistory) - 1),
                      !.redoStack = Append(m.redoStack, pushed),
                      !.state = restored,
                      !.threw = NoError]
    ELSE [m EXCEPT !.threw = "No saved state to rollback to."]

\* rollbackState() that returns silently when the undo stack is empty.
rollbackStateSilent(m) ==
    IF Len(m.stateHistory) > 0
    THEN LET previousState == m.stateHistory[Len(m.stateHistory)]
             pushed == NewRef(m.heap)
             h1 == Alloc(m.heap, pushed, m.heap[m.state])
             restored == NewRef(h1)
         IN [m EXCEPT !.heap = Alloc(h1, restored, h1[previousState]),
                      !.stateHistory = SubSeq(m.stateHistory, 1, Len(m.stateHistory) - 1),
                      !.redoStack = Append(m.redoStack, pushed),
                      !.state = restored,
                      !.threw = NoError]
    ELSE [m EXCEPT !.threw = NoError]

\* rollbackState() that makes the copy of the state the only snapshot of
\* the redo stack (an assignment for the push).
rollbackStateResetsRedo(m) ==
    IF Len(m.stateHistory) > 0
    THEN LET previousState == m.stateHistory[Len(m.stateHistory)]
             pushed == NewRef(m.heap)
             h1 == Alloc(m.heap, pushed, m.heap[m.state])
             restored == NewRef(h1)
         IN [m EXCEPT !.heap = Alloc(h1, restored, h1[previousState]),
                      !.stateHistory = SubSeq(m.stateHistory, 1, Len(m.stateHistory) - 1),
                      !.redoStack = <<pushed>>,
                      !.state = restored,
                      !.threw = NoError]
    ELSE [m EXCEPT !.threw = "No saved state to rollback to."]

\* rollbackState() that assigns the fields of the popped snapshot to the
\* state object it has (Object.assign for the spread).
rollbackStateInPlace(m) ==
    IF Len(m.stateHistory) > 0
    THEN LET previousState == m.stateHistory[Len(m.stateHistory)]
             pushed == NewRef(m.heap)
             h1 == Alloc(m.heap, pushed, m.heap[m.state])
         IN [m EXCEPT !.heap = [h1 EXCEPT ![m.state] = h1[previousState]],
                      !.stateHistory = SubSeq(m.stateHistory, 1, Len(m.stateHistory) - 1),
                      !.redoStack = Append(m.redoStack, pushed),
                      !.threw = NoError]
    ELSE [m EXCEPT !.threw = "No saved state to rollback to."]

\* rollbackState(): pop the undo stack, push a copy of the state on the
\* redo stack, make a copy of the popped snapshot the state; throw when
\* the undo stack is empty.
rollbackState(m) ==
    IF Len(m.stateHistory) > 0
    THEN LET previousState == Top(m.stateHistory)
             pushed == NewRef(m.heap)
             h1 == Alloc(m.heap, pushed, m.heap[m.state])
             restored == NewRef(h1)
         IN log([m EXCEPT !.heap = Alloc(h1, restored, h1[previousState]),
                          !.stateHistory = Pop(m.stateHistory),
                          !.redoStack = Append(m.redoStack, pushed),
                          !.state = restored,
                          !.threw = NoError],
                "State rolled back to previous state", TRUE)
    ELSE [log(m, NoHistoryError, FALSE) EXCEPT !.threw = NoHistoryError]

\* redoState() that, on an empty redo stack, pushes the state on the undo
\* stack before it throws.
redoStatePushesFirst(m) ==
    LET pushed == NewRef(m.heap)
        h1 == Alloc(m.heap, pushed, m.heap[m.state])
    IN IF Len(m.redoStack) > 0
       THEN LET nextState == m.redoStack[Len(m.redoStack)]
                restored == NewRef(h1)
            IN [m EXCEPT !.heap = Alloc(h1, restored, h1[nextState]),
                         !.redoStack = SubSeq(m.redoStack, 1, Len(m.redoStack) - 1),
                         !.stateHistory = Append(m.stateHistory, pushed),
                         !.state = restored,
                         !.threw = NoError]
       ELSE [m EXCEPT !.heap = h1,
                      !.stateHistory = Append(m.stateHistory, pushed),
                      !.threw = "No state to redo."]

\* redoState() that does not push the state on the undo stack.
redoStateDropsState(m) ==
    IF Len(m.redoStack) > 0
    THEN LET nextState == m.redoStack[Len(m.redoStack)]
             restored == NewRef(m.heap)
         IN [m EXCEPT !.heap = Alloc(m.heap, restored, m.heap[nextState]),
                      !.redoStack = SubSeq(m.redoStack, 1, Len(m.redoStack) - 1),
                      !.state = restored,
                      !.threw = NoError]
    ELSE [m EXCEPT !.threw = "No state to redo."]

\* redoState() that puts the popped snapshot, not the state, on the undo
\* stack.
redoStatePushesPopped(m) ==
    IF Len(m.redoStack) > 0
    THEN LET nextState == m.redoStack[Len(m.redoStack)]
             pushed == NewRef(m.heap)
             h1 == Alloc(m.heap, pushed, m.heap[nextState])
             restored == NewRef(h1)
         IN [m EXCEPT !.heap = Alloc(h1, restored, h1[nextState]),
                      !.redoStack = SubSeq(m.redoStack, 1, Len(m.redoStack) - 1),
                      !.stateHistory = Append(m.stateHistory, pushed),
                      !.state = restored,
                      !.threw = NoError]
    ELSE [m EXCEPT !.threw = "No state to redo."]

\* redoState(): pop the redo stack, push a copy of the state on the undo
\* stack, make a copy of the popped snapshot the state; throw when the
\* redo stack is empty.
redoState(m) ==
    IF Len(m.redoStack) > 0
    THEN LET nextState == Top(m.redoStack)
             pushed == NewRef(m.heap)
             h1 == Alloc(m.heap, pushed, m.heap[m.state])
             restored == NewRef(h1)
         IN log([m EXCEPT !.heap = Alloc(h1, restored, h1[nextState]),
                          !.redoStack = Pop(m.redoStack),
                          !.stateHistory = Append(m.stateHistory, pushed),
                          !.state = restored,
                          !.threw = NoError],
                "State redone to next state", TRUE)
    ELSE [log(m, NoRedoError, FALSE) EXCEPT !.threw = NoRedoError]

\* --------------------------------------------------------------- outcomes
\* op returned normally and rejected no promise.
Completed(op) == [op |-> op, failure |-> "none", error |-> NoError]
\* op threw the error before it returned.
Threw(op, error) == [op |-> op, failure |-> "throw", error |-> error]
\* An invoker that swallows the error.
RejectedSwallowed(op, error) == [op |-> op, failure |-> "none", error |-> "none"]

\* op returned normally and the invoker's promise is rejected with the
\* error: by the call itself, or by the continuation that just ran.
Rejected(op, error) == [op |-> op, failure |-> "reject", error |-> error]

\* ------------------------------------------------------ wrapped procedure
\* No call of a wrapped function is in progress.
Idle == [pc |-> "idle", state |-> 0, error |-> NoError]

\* The procedure ends with the error: nothing in it catches.
Failed(pr, error) == [pr EXCEPT !.pc = "failed", !.error = error]

\* A call the procedure makes through its bundle threw the error, or the
\* promise it awaits is rejected with it.
Raised(pr, error) ==
    IF pr.pc = "running" /\ error # NoError THEN Failed(pr, error) ELSE pr

\* `await transition(name)` in the procedure: it is suspended until the
\* invoker's promise settles.
Awaits(pr) == IF pr.pc = "running" THEN [pr EXCEPT !.pc = "awaiting"] ELSE pr

\* The promise the procedure awaits has settled as the continuation call
\* of the invoker settled it.
Resumed(pr, call) ==
    IF pr.pc # "awaiting" THEN pr
    ELSE IF call.inner = "rejected" THEN Failed(pr, ErrorOf(call.fn))
    ELSE [pr EXCEPT !.pc = "running"]

\* Synchronous code of the procedure is running, or the continuation of
\* the wrapper is the next microtask: no timer and no other continuation
\* runs now.
Busy == proc.pc \in {"running", "returned", "failed"}

\* A wrapper that does not await the procedure.
OverAtOnce(pr) == pr.pc # "idle"

\* The `await` of line 63 is over: the procedure has returned, or what it
\* returned has settled, or it has failed.
Over(pr) == pr.pc \in {"returned", "failed"}

\* A wrapper whose catch block does not rethrow.
OutcomeSwallowed(pr) == [op |-> "wrapper", failure |-> "none", error |-> NoError]

\* How the promise of the wrapper settles, lines 72-77: fulfilled when the
\* procedure completed, rejected with the error it failed with.
Outcome(pr) ==
    IF pr.pc = "failed"
    THEN [op |-> "wrapper", failure |-> "reject", error |-> pr.error]
    ELSE [op |-> "wrapper", failure |-> "none", error |-> NoError]

\* An invoker that was handed the state object when it was created, line
\* 66 for the invoker of a bundle, and keeps using it.
TargetAtCreation(m) == IF proc.state # 0 THEN proc.state ELSE m.state

\* The object the invoker hands to the transition function: context.state,
\* read at line 88 when the invoker is called.
Target(m) == m.state

\* ---------------------------------------------------------------- actions
\* The caller keeps none of the objects it built the manager with, and
\* there is no second manager.
NoObjects == [initialState |-> 0, other |-> 0,
              transitions |-> callerTransitions, shared |-> FALSE]

\* new TransitionX(initialState, transitions, false)
Init ==
    /\ heap = Alloc(<<>>, 1, initialState)
    /\ state = 1
    /\ transitions = callerTransitions
    /\ stateHistory = <<>>
    /\ redoStack = <<>>
    /\ timers = EmptyBag
    /\ microtasks = <<>>
    /\ last = Completed("new")
    /\ presave = <<>>
    /\ rolledBack = 0
    /\ proc = Idle
    /\ debug = FALSE
    /\ console = <<>>
    /\ nested = <<>>
    /\ objects = NoObjects

\* The calls suspended at their await: invoker calls, and the call of a
\* wrapped function.
Suspended ==
    BagCardinality(timers) + Len(microtasks)
        + (IF proc.pc = "idle" THEN 0 ELSE 1)

\* A timer callback queued the continuation at the head of the microtask
\* queue: it runs before any other job starts.
QueuedByTimer == microtasks # <<>> /\ microtasks[1].inner # "value"

\* The next state: manager m, timers tm, microtasks mt and wrapped
\* procedure pr, renamed.
Store(m, tm, mt, pr) ==
    LET roots == Roots(m.state, m.stateHistory, m.redoStack, tm, mt, pr,
                       objects) IN
    /\ heap' = RenamedHeap(roots, m.heap)
    /\ state' = Renamed(roots, m.state)
    /\ stateHistory' = RenamedSeq(roots, m.stateHistory)
    /\ redoStack' = RenamedSeq(roots, m.redoStack)
    /\ timers' = RenamedBag(roots, tm)
    /\ microtasks' = [i \in DOMAIN mt |->
                        [mt[i] EXCEPT !.obj = Renamed(roots, mt[i].obj)]]
    /\ proc' = [pr EXCEPT !.state = Renamed(roots, pr.state)]
    /\ objects' = [objects EXCEPT !.initialState = Renamed(roots, @),
                                  !.other = Renamed(roots, @)]
    /\ nested' = m.nested
    /\ console' = m.console
    /\ debug' = m.debug

\* How a call of a history operation completed.
Called(op, m) ==
    IF m.threw = NoError THEN Completed(op) ELSE Threw(op, m.threw)

SaveState ==
    /\ ~QueuedByTimer
    /\ Len(stateHistory) + Suspended < MaxLoad
    /\ Store(saveState(Manager), timers, microtasks,
             Raised(proc, saveState(Manager).threw))
    /\ last' = Called("saveState", saveState(Manager))
    /\ presave' = Append(presave, heap[state])
    /\ rolledBack' = 0
    /\ UNCHANGED transitions

RollbackState ==
    /\ ~QueuedByTimer
    /\ Store(rollbackState(Manager), timers, microtasks,
             Raised(proc, rollbackState(Manager).threw))
    /\ last' = Called("rollbackState", rollbackState(Manager))
    /\ presave' = IF presave = <<>> THEN presave ELSE Pop(presave)
    /\ rolledBack' = IF last'.failure = "none" THEN rolledBack + 1 ELSE rolledBack
    /\ UNCHANGED transitions

RedoState ==
    /\ ~QueuedByTimer
    /\ Store(redoState(Manager), timers, microtasks,
             Raised(proc, redoState(Manager).threw))
    /\ last' = Called("redoState", redoState(Manager))
    /\ presave' = IF last'.failure = "none"
                  THEN Append(presave, heap[state]) ELSE presave
    /\ rolledBack' = IF last'.failure = "none" THEN rolledBack - 1 ELSE rolledBack
    /\ UNCHANGED transitions

\* An invoker that hands the transition function a copy of the state.
AppliedToCopy(m, fn) ==
    [m EXCEPT !.heap = Alloc(m.heap, NewRef(m.heap), SyncAssign(fn, m.heap[m.state]))]

\* An invoker that puts the state back as it was when the transition
\* function throws.
AppliedUndoneOnThrow(m, fn) ==
    IF Completion(fn) = "throw" THEN m
    ELSE [m EXCEPT !.heap[m.state] = SyncAssign(fn, @)]

\* The manager after the invoker's statements up to its await, lines
\* 84-91, for a transition that is defined: the state object and what it
\* refers to after the transition function's own statements ran.
Applied(m, fn) ==
    LET given == m.heap[Target(m)]
        before == log(log(m, "Attempting transition", TRUE),
                      "State before transition", TRUE)
        after == [before EXCEPT !.heap[Target(m)] = SyncAssign(fn, @),
                                !.nested = NestedAssign(fn, given, @)]
    IN IF Completion(fn) = "throw"
       THEN log(after, "Error during transition", FALSE)
       ELSE after

\* createTransition()(name): the body of the async function up to its
\* await. An undefined transition and a transition that throws reject
\* the promise before the call returns. Otherwise the call is suspended
\* at line 88: on a value that is no promise its continuation is queued
\* at once, on a pending promise it waits for the timer, whose callback
\* holds the state object the transition was given. A wrapped procedure
\* that made the call awaits the promise.
Transition(name) ==
    /\ ~QueuedByTimer
    /\ LET fn == Lookup(transitions, name) IN
       IF fn = Undefined
       THEN /\ last' = Rejected("transition", UnknownTransitionError(name))
            /\ proc' = Raised(proc, UnknownTransitionError(name))
            /\ console' = log(log(Manager, "Attempting transition", TRUE),
                              UnknownTransitionError(name), FALSE).console
            /\ UNCHANGED <<heap, state, stateHistory, redoStack, timers,
                           microtasks, debug, nested, objects>>
       ELSE CASE Completion(fn) = "throw" ->
                   /\ Store(Applied(Manager, fn), timers, microtasks,
                            Raised(proc, ErrorOf(fn)))
                   /\ last' = Rejected("transition", ErrorOf(fn))
              [] Completion(fn) = "value" ->
                   /\ Len(stateHistory) + Len(redoStack) + Suspended < MaxLoad
                   /\ Store(Applied(Manager, fn), timers,
                            Append(microtasks,
                                   [inner |-> "value", fn |-> Undefined,
                                    obj |-> 0]),
                            Awaits(proc))
                   /\ last' = Completed("transition")
              [] Completion(fn) = "promise" ->
                   /\ Len(stateHistory) + Len(redoStack) + Suspended < MaxLoad
                   /\ Store(Applied(Manager, fn),
                            timers (+) SetToBag({[fn |-> fn,
                                                  obj |-> Target(Manager)]}),
                            microtasks, Awaits(proc))
                   /\ last' = Completed("transition")
    /\ UNCHANGED <<transitions, presave, rolledBack>>

\* The timer of an asynchronous transition fires: its callback assigns to
\* the state object the transition was given and settles the promise the
\* invoker awaits, which queues the invoker's continuation. Timers run
\* only when the microtask queue is empty.
Timer(call) ==
    /\ microtasks = <<>>
    /\ ~Busy
    /\ BagIn(call, timers)
    /\ Store([Manager EXCEPT !.heap[call.obj] = TimerAssign(call.fn, @)],
             timers (-) SetToBag({call}),
             <<[inner |-> TimerSettles(call.fn), fn |-> call.fn,
                obj |-> call.obj]>>,
             proc)
    /\ UNCHANGED <<transitions, last, presave, rolledBack>>

\* What the continuation of the invoker logs, line 93 or line 90.
Continued(m, call) ==
    IF call.inner = "rejected" THEN log(m, "Error during transition", FALSE)
    ELSE log(m, "State after transition", TRUE)

\* How the invoker's promise settles when its continuation has run.
Settled(call) ==
    IF call.inner = "rejected" THEN Rejected("resume", ErrorOf(call.fn))
    ELSE Completed("resume")

\* The continuation of the invoker after its await, lines 89-93: the
\* first of the microtask queue runs and settles the invoker's promise;
\* the procedure that awaits it goes on, or fails with its error.
Resume ==
    /\ microtasks # <<>>
    /\ ~Busy
    /\ Store(Continued(Manager, Head(microtasks)), timers, Tail(microtasks),
             Resumed(proc, Head(microtasks)))
    /\ last' = Settled(Head(microtasks))
    /\ UNCHANGED <<transitions, presave, rolledBack>>

Next ==
    \/ SaveState
    \/ RollbackState
    \/ RedoState
    \/ \E name \in Names : Transition(name)
    \/ \E call \in BagToSet(timers) : Timer(call)
    \/ Resume

Spec == Init /\ [][Next]_vars

\* ------------------------------------------------ wrapped function calls
\* tx.wrap(fn)(): the wrapper builds the bundle, whose `state` is the
\* object that is the state now (line 65), and calls the procedure.
WrapCall ==
    /\ proc.pc = "idle"
    /\ ~QueuedByTimer
    /\ Len(stateHistory) + Len(redoStack) + Suspended < MaxLoad
    /\ Store(log(Manager, "Executing wrapped function", TRUE), timers,
             microtasks,
             [pc |-> "running", state |-> state, error |-> NoError])
    /\ last' = Completed("wrap")
    /\ UNCHANGED <<transitions, presave, rolledBack>>

\* The calls the procedure makes through its bundle.
ProcSaveState == proc.pc = "running" /\ SaveState
ProcRollbackState == proc.pc = "running" /\ RollbackState
ProcRedoState == proc.pc = "running" /\ RedoState
ProcTransition(name) == proc.pc = "running" /\ Transition(name)

\* The procedure throws an error of its own.
ProcThrow ==
    /\ proc.pc = "running"
    /\ proc' = Failed(proc, ProcedureError)
    /\ console' = <<>>
    /\ UNCHANGED <<heap, state, transitions, stateHistory, redoStack,
                   timers, microtasks, last, presave, rolledBack, debug, nested,
                   objects>>

\* The procedure returns.
ProcReturn ==
    /\ proc.pc = "running"
    /\ proc' = [proc EXCEPT !.pc = "returned"]
    /\ console' = <<>>
    /\ UNCHANGED <<heap, state, transitions, stateHistory, redoStack,
                   timers, microtasks, last, presave, rolledBack, debug, nested,
                   objects>>

\* The continuation of the wrapper after its await, lines 72-77: it
\* settles the promise the call of the wrapped function returned.
WrapSettle ==
    /\ Over(proc)
    /\ Store(IF proc.pc = "failed"
             THEN log(Manager, "Error in wrapped function", FALSE)
             ELSE Manager,
             timers, microtasks, Idle)
    /\ last' = Outcome(proc)
    /\ UNCHANGED <<transitions, presave, rolledBack>>

\* The manager used through wrapped functions only, one call at a time,
\* by procedures that await every invoker call they make.
NextWrap ==
    \/ WrapCall
    \/ ProcSaveState
    \/ ProcRollbackState
    \/ ProcRedoState
    \/ \E name \in Names : ProcTransition(name)
    \/ ProcThrow
    \/ ProcReturn
    \/ \E call \in BagToSet(timers) : Timer(call)
    \/ Resume
    \/ WrapSettle

SpecWrap == Init /\ [][NextWrap]_vars

\* ------------------------------------------- the constructor's arguments
\* A constructor that keeps the objects it is given.
constructorKeepsArguments(h, initial, reg) ==
    [heap |-> h, state |-> initial, transitions |-> reg, shared |-> TRUE]

\* new TransitionX(initialState, transitions): this.state is a new object
\* with the fields of the caller's, this.transitions a new object with
\* the keys of the caller's registry.
constructor(h, initial, reg) ==
    LET own == NewRef(h) IN
    [heap |-> Alloc(h, own, h[initial]), state |-> own,
     transitions |-> reg, shared |-> FALSE]

\* As in beforeEach of the test suite, two managers are built with the
\* same initial-state object and registry; the model follows the first
\* and keeps the caller's objects and the state object of the second.
InitCaller ==
    LET callerHeap == Alloc(<<>>, 1, initialState)
        first == constructor(callerHeap, 1, callerTransitions)
        second == constructor(first.heap, 1, callerTransitions)
        ob == [initialState |-> 1, other |-> second.state,
               transitions |-> callerTransitions, shared |-> first.shared]
        roots == Roots(first.state, <<>>, <<>>, EmptyBag, <<>>, Idle, ob)
    IN /\ heap = RenamedHeap(roots, second.heap)
       /\ state = Renamed(roots, first.state)
       /\ transitions = first.transitions
       /\ objects = [ob EXCEPT !.initialState = Renamed(roots, @),
                               !.other = Renamed(roots, @)]
       /\ stateHistory = <<>>
       /\ redoStack = <<>>
       /\ timers = EmptyBag
       /\ microtasks = <<>>
       /\ last = Completed("new")
       /\ presave = <<>>
       /\ rolledBack = 0
       /\ proc = Idle
       /\ debug = FALSE
       /\ console = <<>>
       /\ nested = <<>>

\* What the caller does to a key of an object it owns.
Writes == {"change", "remove", "add"}

\* The caller's initial-state object after the write: hunger changed,
\* energy deleted, or mood added.
WrittenState(w, rec) ==
    CASE w = "change" -> [rec EXCEPT !.hunger = "satisfied"]
      [] w = "remove" -> [k \in (DOMAIN rec) \ {"energy"} |-> rec[k]]
      [] w = "add"    -> [k \in (DOMAIN rec) \cup {"mood"} |->
                            IF k = "mood" THEN "calm" ELSE rec[k]]

\* The caller's registry object after the write: rest changed to another
\* function, eat deleted, or fly added.
WrittenRegistry(w, reg) ==
    CASE w = "change" -> [k \in DOMAIN reg |->
                            IF k = "rest" THEN "faint" ELSE reg[k]]
      [] w = "remove" -> [k \in (DOMAIN reg) \ {"eat"} |-> reg[k]]
      [] w = "add"    -> [k \in (DOMAIN reg) \cup {"fly"} |->
                            IF k = "fly" THEN "eat" ELSE reg[k]]

\* The caller writes to the two objects it passed to the constructor, a
\* key of each; the manager sees the write to the registry if
\* this.transitions is that object.
CallerWrites(w) ==
    /\ objects.initialState # 0
    /\ heap' = [heap EXCEPT ![objects.initialState] = WrittenState(w, @)]
    /\ objects' = [objects EXCEPT !.transitions = WrittenRegistry(w, @)]
    /\ transitions' = IF objects.shared THEN objects'.transitions
                      ELSE transitions
    /\ console' = <<>>
    /\ UNCHANGED <<state, stateHistory, redoStack, timers, microtasks,
                   last, presave, rolledBack, proc, debug, nested>>

\* The invoker of the second manager runs eat on its state.
OtherTransition ==
    /\ objects.other # 0
    /\ heap' = [heap EXCEPT ![objects.other] = SyncAssign("eat", @)]
    /\ console' = <<>>
    /\ UNCHANGED <<state, transitions, stateHistory, redoStack, timers,
                   microtasks, last, presave, rolledBack, proc, debug, nested,
                   objects>>

\* The names the caller passes to the invoker while its own objects are
\* followed.
CallerNames == {"eat", "fly"}

NextCaller ==
    \/ SaveState
    \/ RollbackState
    \/ RedoState
    \/ \E name \in CallerNames : Transition(name)
    \/ Resume
    \/ \E w \in Writes : CallerWrites(w)
    \/ OtherTransition

SpecCaller == InitCaller /\ [][NextCaller]_vars

\* --------------------------------------------------------- nested objects
\* An initial state with a field that refers to a nested object:
\* { hunger: 'hungry', energy: 'low', stomach: { contents: 'empty' } }.
nestedInitialState == [hunger |-> "hungry", energy |-> "low", stomach |-> 1]

\* A registry with feast, which assigns hunger and fills the stomach.
nestedTransitions == [eat |-> "eat", feast |-> "feast"]

\* new TransitionX(nestedInitialState, nestedTransitions, false): the
\* spread of line 7 copies the reference to the nested object, not the
\* object.
InitNested ==
    /\ heap = Alloc(<<>>, 1, nestedInitialState)
    /\ nested = <<"empty">>
    /\ state = 1
    /\ transitions = nestedTransitions
    /\ stateHistory = <<>>
    /\ redoStack = <<>>
    /\ timers = EmptyBag
    /\ microtasks = <<>>
    /\ last = Completed("new")
    /\ presave = <<>>
    /\ rolledBack = 0
    /\ proc = Idle
    /\ debug = FALSE
    /\ console = <<>>
    /\ objects = NoObjects

NextNested ==
    \/ SaveState
    \/ RollbackState
    \/ RedoState
    \/ \E name \in DOMAIN nestedTransitions : Transition(name)
    \/ Resume

SpecNested == InitNested /\ [][NextNested]_vars

\* --------------------------------------------------------- the debug flag
\* new TransitionX(initialState, transitions, debug), debug on or off.
InitDebug ==
    /\ heap = Alloc(<<>>, 1, initialState)
    /\ state = 1
    /\ transitions = callerTransitions
    /\ stateHistory = <<>>
    /\ redoStack = <<>>
    /\ timers = EmptyBag
    /\ microtasks = <<>>
    /\ last = Completed("new")
    /\ presave = <<>>
    /\ rolledBack = 0
    /\ proc = Idle
    /\ debug \in BOOLEAN
    /\ console = <<>>
    /\ nested = <<>>
    /\ objects = NoObjects

\* The names the caller passes to the invoker of a manager built with
\* either value of debug.
DebugNames == {"eat", "rest", "choke", "fly"}

NextDebug ==
    \/ SaveState
    \/ RollbackState
    \/ RedoState
    \/ \E name \in DebugNames : Transition(name)
    \/ \E call \in BagToSet(timers) : Timer(call)
    \/ Resume

SpecDebug == InitDebug /\ [][NextDebug]_vars

\* ----------------------------------------------------------------- claims
\* The fields of the snapshots on a stack, bottom first.
Fields(h, stack) == [i \in DOMAIN stack |-> h[stack[i]]]

\* C1. LIFO undo: each rollbackState called while snapshots pushed by
\* earlier calls are on the undo stack succeeds and leaves the state with
\* the fields it had when the latest snapshot not yet rolled back was
\* pushed; so n rollbacks after n saves restore s_n, s_(n-1), ..., s_1,
\* whatever transitions ran between and after the saves.
LIFOUndo ==
    [][(RollbackState /\ presave # <<>>)
          => /\ last'.failure = "none"
             /\ heap'[state'] = Top(presave)]_vars

\* Two rollbacks in a row undid two saves that had a transition between
\* them and one after them.
LIFOUndoWitness ==
    /\ last = Completed("rollbackState")
    /\ Len(redoStack) = 2
    /\ Len(stateHistory) = 1
    /\ heap[redoStack[1]] # heap[redoStack[2]]
    /\ heap[redoStack[2]] # heap[state]
    /\ heap[state] # heap[stateHistory[1]]

\* C2. Round trip: where the undo stack is not empty, rollbackState and
\* then redoState at once leave the state with the fields it had before
\* the rollbackState, and so does the pair repeated.
RollbackRedoRoundTrip ==
    Len(stateHistory) > 0 =>
        LET once == redoState(rollbackState(Manager))
            twice == redoState(rollbackState(once))
        IN /\ once.threw = NoError
           /\ once.heap[once.state] = heap[state]
           /\ twice.threw = NoError
           /\ twice.heap[twice.state] = heap[state]

\* A redoState right after a rollbackState brought back fields that differ
\* from the snapshot the rollback had restored.
RollbackRedoRoundTripWitness ==
    /\ last = Completed("redoState")
    /\ redoStack = <<>>
    /\ Len(stateHistory) > 0
    /\ heap[state] # heap[Top(stateHistory)]

\* C3. saveState empties the redo stack: after every saveState the redo
\* stack is empty and a redoState called next throws NoRedoError, also
\* where redoState would have succeeded before the saveState.
SaveClearsRedo ==
    [][SaveState
          => /\ redoStack' = <<>>
             /\ redoState(Manager').threw = NoRedoError
             /\ Len(redoStack) > 0 => redoState(Manager).threw = NoError]_vars

\* A redoState failed although a snapshot had been rolled back earlier:
\* a later saveState, whose snapshot is on the undo stack, cleared it.
SaveClearsRedoWitness ==
    /\ last = Threw("redoState", NoRedoError)
    /\ Len(stateHistory) = 2
    /\ heap[stateHistory[1]] # heap[stateHistory[2]]

\* C4. rollbackState on an empty undo stack throws NoHistoryError and
\* leaves the state, the undo stack and the redo stack as they were.
RollbackOnEmptyThrows ==
    [][(RollbackState /\ stateHistory = <<>>)
          => /\ last' = Threw("rollbackState", NoHistoryError)
             /\ UNCHANGED <<heap, state, stateHistory, redoStack>>]_vars

\* rollbackState threw after every saved snapshot had been rolled back.
RollbackOnEmptyThrowsWitness ==
    /\ last = Threw("rollbackState", NoHistoryError)
    /\ stateHistory = <<>>
    /\ Len(redoStack) > 0

\* C5. redoState on an empty redo stack throws NoRedoError and leaves the
\* state, the undo stack and the redo stack as they were.
RedoOnEmptyThrows ==
    [][(RedoState /\ redoStack = <<>>)
          => /\ last' = Threw("redoState", NoRedoError)
             /\ UNCHANGED <<heap, state, stateHistory, redoStack>>]_vars

\* redoState threw after the rolled-back snapshots had all been redone.
RedoOnEmptyThrowsWitness ==
    /\ last = Threw("redoState", NoRedoError)
    /\ redoStack = <<>>
    /\ Len(stateHistory) > 0

\* C6. Invoking a name that is no key of the registry rejects the
\* invoker's promise with UnknownTransitionError for that name, calls no
\* function (so nothing is awaited) and leaves the state and both stacks
\* as they were.
UnknownTransitionFails ==
    [][\A name \in Names \ DOMAIN transitions :
          Transition(name)
             => /\ last' = Rejected("transition", UnknownTransitionError(name))
                /\ UNCHANGED <<heap, state, stateHistory, redoStack,
                               timers, microtasks>>]_vars

\* The invoker's continuation that the step has just queued.
JustQueued ==
    /\ Len(microtasks') = Len(microtasks) + 1
    /\ microtasks'[Len(microtasks')].inner = "value"

\* C7. Asynchronous ordering: the call of a transition that returns a
\* pending promise changes no object and leaves the invoker suspended; no
\* continuation runs for a call whose timer has not fired; and when the
\* continuation fulfils the invoker's promise, the object the transition
\* was given shows the assignment of its timer callback, and so does the
\* state when that object still is the state.
AsyncOrdering ==
    [][/\ \A name \in DOMAIN transitions :
             (Completion(transitions[name]) = "promise" /\ Transition(name))
                => /\ heap' = heap
                   /\ microtasks' = microtasks
                   /\ BagCardinality(timers') = BagCardinality(timers) + 1
       /\ Resume => BagCardinality(timers') = BagCardinality(timers)
       /\ (Resume /\ Head(microtasks).inner = "fulfilled")
             => LET call == Head(microtasks) IN
                /\ last' = Completed("resume")
                /\ heap[call.obj] = TimerAssign(call.fn, heap[call.obj])
                /\ call.fn = "rest" => heap[call.obj].energy = "high"
                /\ call.obj = state
                      => heap'[state'] = TimerAssign(call.fn, heap'[state'])]_vars

\* The timer of rest has fired and the invoker's promise is about to be
\* fulfilled: the state shows energy high, which was low at the save.
AsyncOrderingWitness ==
    /\ microtasks # <<>>
    /\ Head(microtasks) = [inner |-> "fulfilled", fn |-> "rest", obj |-> state]
    /\ heap[state].energy = "high"
    /\ Len(stateHistory) > 0
    /\ heap[Top(stateHistory)].energy = "low"

\* C8. A synchronous transition is immediate: when the invoker's call
\* returns, the state already shows the assignments of the transition
\* function, and the invoker's promise is still unfulfilled, its
\* continuation waiting in the microtask queue.
SyncTransitionImmediate ==
    [][\A name \in DOMAIN transitions :
          (Completion(transitions[name]) = "value" /\ Transition(name))
             => /\ last' = Completed("transition")
                /\ state' = state
                /\ heap'[state'] = SyncAssign(transitions[name], heap[state])
                /\ name = "eat" => heap'[state'].hunger = "satisfied"
                /\ JustQueued]_vars

\* eat has just been called after a save: the state shows satisfied, the
\* snapshot hungry, and the continuation of the call has not run.
SyncTransitionImmediateWitness ==
    /\ last = Completed("transition")
    /\ microtasks # <<>>
    /\ microtasks[Len(microtasks)].inner = "value"
    /\ heap[state].hunger = "satisfied"
    /\ Len(stateHistory) > 0
    /\ heap[Top(stateHistory)].hunger = "hungry"

\* C9 as claimed: each of the three errors is thrown by the call that
\* detects it.
ErrorsThrownByCall ==
    last.error \in {NoHistoryError, NoRedoError}
                      \cup {UnknownTransitionError(name) : name \in Names}
        => last.failure = "throw"

\* C9 as amended. rollbackState and redoState throw their error during the
\* call. The invoker does not throw: when it finds no transition under the
\* name, its call returns a promise already rejected with the error, with
\* nothing awaited. None of the three errors is swallowed.
ErrorsRaisedByCall ==
    [][/\ (RollbackState /\ stateHistory = <<>>)
             => last'.failure = "throw" /\ last'.error = NoHistoryError
       /\ (RedoState /\ redoStack = <<>>)
             => last'.failure = "throw" /\ last'.error = NoRedoError
       /\ \A name \in Names :
             (Lookup(transitions, name) = Undefined /\ Transition(name))
                => /\ last'.op = "transition"
                   /\ last'.failure = "reject"
                   /\ last'.error = UnknownTransitionError(name)
                   /\ UNCHANGED <<timers, microtasks>>
       /\ last'.error \in {NoHistoryError, NoRedoError} => last'.failure = "throw"
       /\ last'.error \in {UnknownTransitionError(name) : name \in Names}
             => last'.op = "transition" /\ last'.failure = "reject"]_vars

\* The invoker was called with a name nothing is defined under.
ErrorsRaisedByCallWitness ==
    /\ last = Rejected("transition", UnknownTransitionError("fly"))
    /\ Len(stateHistory) > 0

\* C10. A failing transition function: the invoker's promise is rejected
\* with the error of the function, by the call when the function throws
\* and by the continuation when its promise rejects; what the function
\* assigned before it failed stays in the object it was given, which is
\* the state unless the state was replaced meanwhile; and the snapshots on
\* the undo and redo stacks are as they were.
FailureKeepsMutation ==
    [][/\ \A name \in DOMAIN transitions :
             (Completion(transitions[name]) = "throw" /\ Transition(name))
                => /\ last' = Rejected("transition", ErrorOf(transitions[name]))
                   /\ heap'[state'] = SyncAssign(transitions[name], heap[state])
                   /\ UNCHANGED <<state, stateHistory, redoStack, timers, microtasks>>
                   /\ Fields(heap', stateHistory') = Fields(heap, stateHistory)
                   /\ Fields(heap', redoStack') = Fields(heap, redoStack)
       /\ (Resume /\ Head(microtasks).inner = "rejected")
             => LET call == Head(microtasks) IN
                /\ last' = Rejected("resume", ErrorOf(call.fn))
                /\ heap[call.obj] = TimerAssign(call.fn, heap[call.obj])
                /\ heap'[state'] = heap[state]
                /\ Fields(heap', stateHistory') = Fields(heap, stateHistory)
                /\ Fields(heap', redoStack') = Fields(heap, redoStack)]_vars

\* choke was called after a save made when hunger was satisfied: the call
\* rejected its promise and the state still shows hungry, as choke left it.
FailureKeepsMutationWitness ==
    /\ last = Rejected("transition", "choked")
    /\ heap[state].hunger = "hungry"
    /\ Len(stateHistory) > 0
    /\ heap[Top(stateHistory)].hunger = "satisfied"

\* C14 as claimed, its last clause: no step changes the size of either
\* stack by more than one.
SizesChangeByAtMostOne ==
    [][/\ Len(stateHistory') - Len(stateHistory) \in {-1, 0, 1}
       /\ Len(redoStack') - Len(redoStack) \in {-1, 0, 1}]_vars

\* C14 as amended. A successful rollbackState takes one snapshot off the
\* undo stack and puts one on the redo stack; a successful redoState takes
\* one off the redo stack and puts one on the undo stack; a failing one
\* changes neither; so neither changes the total. saveState puts one on
\* the undo stack and empties the redo stack, whatever its size. An
\* invoker call, a timer and a continuation change neither size.
StackSizeAccounting ==
    [][/\ (last'.op = "rollbackState" /\ RollbackState) =>
             IF stateHistory # <<>>
             THEN /\ Len(stateHistory') = Len(stateHistory) - 1
                  /\ Len(redoStack') = Len(redoStack) + 1
                  /\ last'.failure = "none"
             ELSE UNCHANGED <<stateHistory, redoStack>>
       /\ (last'.op = "redoState" /\ RedoState) =>
             IF redoStack # <<>>
             THEN /\ Len(redoStack') = Len(redoStack) - 1
                  /\ Len(stateHistory') = Len(stateHistory) + 1
                  /\ last'.failure = "none"
             ELSE UNCHANGED <<stateHistory, redoStack>>
       /\ (last'.op = "saveState" /\ SaveState) =>
             /\ Len(stateHistory') = Len(stateHistory) + 1
             /\ Len(redoStack') = 0
       /\ Len(stateHistory') + Len(redoStack')
               # Len(stateHistory) + Len(redoStack)
             => SaveState
       /\ (Len(stateHistory') # Len(stateHistory)
              \/ Len(redoStack') # Len(redoStack))
             => SaveState \/ RollbackState \/ RedoState]_vars

\* A redoState succeeded after two rollbacks: two snapshots are on the
\* undo stack again and one is left on the redo stack.
StackSizeAccountingWitness ==
    /\ last = Completed("redoState")
    /\ Len(stateHistory) = 2
    /\ Len(redoStack) = 1

\* C16. Snapshot isolation at the top level: an invoker call, successful
\* or failing, the timer callback of its transition and its continuation
\* leave both stacks with the snapshots they had, in number and in fields
\* (a step that changes either is none of these); and after every step,
\* saveState, rollbackState and redoState included, the state object is
\* none of the objects on the two stacks.
SnapshotIsolation ==
    [][/\ (Fields(heap', stateHistory') # Fields(heap, stateHistory)
              \/ Fields(heap', redoStack') # Fields(heap, redoStack))
             => ~((\E name \in Names : Transition(name))
                    \/ (\E call \in BagToSet(timers) : Timer(call))
                    \/ Resume)
       /\ state' \notin Range(stateHistory') \cup Range(redoStack')]_vars

\* eat ran after a save and rest after a rollback had filled the redo
\* stack: the state differs from the snapshots on both stacks.
SnapshotIsolationWitness ==
    /\ last = Completed("resume")
    /\ Len(stateHistory) > 0
    /\ Len(redoStack) > 0
    /\ heap[state] = [hunger |-> "satisfied", energy |-> "high"]
    /\ heap[Top(stateHistory)] = initialState
    /\ heap[Top(redoStack)] = initialState

\* The state and the contents of the two stacks of a manager.
Triple(m) ==
    <<m.heap[m.state], Fields(m.heap, m.stateHistory),
      Fields(m.heap, m.redoStack)>>

\* C18. Full inverse pair: rollbackState and then redoState, where the
\* undo stack is not empty, and redoState and then rollbackState, where
\* the redo stack is not empty, both succeed and leave the fields of the
\* state and of every snapshot on the two stacks as they were.
FullInversePair ==
    /\ stateHistory # <<>> =>
          LET undone == rollbackState(Manager)
              back == redoState(undone)
          IN /\ undone.threw = NoError /\ back.threw = NoError
             /\ Triple(back) = Triple(Manager)
    /\ redoStack # <<>> =>
          LET redone == redoState(Manager)
              back == rollbackState(redone)
          IN /\ redone.threw = NoError /\ back.threw = NoError
             /\ Triple(back) = Triple(Manager)

\* Both pairs can run: the two stacks hold snapshots that differ from
\* each other and from the state, and a rollbackState has just run.
FullInversePairWitness ==
    /\ last = Completed("rollbackState")
    /\ stateHistory # <<>>
    /\ redoStack # <<>>
    /\ heap[Top(stateHistory)] # heap[state]
    /\ heap[Top(redoStack)] # heap[state]
    /\ heap[Top(redoStack)] # heap[Top(stateHistory)]

\* C19. Lost update: a rollbackState or redoState that succeeds while
\* invoker calls are suspended on a timer makes a new object the state, so
\* the object each timer callback will assign to is then neither the
\* state nor a snapshot; when such a timer fires, what it assigns shows up
\* in the fields of neither the state nor any snapshot, and the promise
\* still settles as the transition function settles it: the continuation
\* of rest fulfils the invoker's promise.
LostUpdate ==
    [][/\ (last'.failure = "none"
              /\ last'.op \in {"rollbackState", "redoState"}
              /\ (RollbackState \/ RedoState))
             => \A e \in BagToSet(timers') :
                   e.obj \notin {state'} \cup Range(stateHistory')
                                        \cup Range(redoStack')
       /\ \A call \in BagToSet(timers) :
             (call.obj # state /\ microtasks' # <<>> /\ Timer(call))
                => /\ heap'[state'] = heap[state]
                   /\ Fields(heap', stateHistory') = Fields(heap, stateHistory)
                   /\ Fields(heap', redoStack') = Fields(heap, redoStack)
                   /\ Head(microtasks').inner = TimerSettles(call.fn)
       /\ (microtasks # <<>> /\ Head(microtasks).inner = "fulfilled"
              /\ Resume)
             => last' = Completed("resume")]_vars

\* rest was suspended when a rollbackState ran; its timer has fired and
\* set energy to high in the object it held, which is no longer the
\* state; the state and the snapshots show low; the continuation that
\* fulfils the promise is queued.
LostUpdateWitness ==
    /\ microtasks # <<>>
    /\ Head(microtasks) = [inner |-> "fulfilled", fn |-> "rest",
                           obj |-> Head(microtasks).obj]
    /\ Head(microtasks).obj # state
    /\ heap[Head(microtasks).obj].energy = "high"
    /\ heap[state].energy = "low"
    /\ redoStack # <<>>
    /\ \A r \in Range(stateHistory) \cup Range(redoStack) : heap[r].energy = "low"

\* C11 as claimed: while a wrapped procedure runs, the `state` of its
\* bundle shows the fields of the manager's state, so a read through it
\* after rollbackState or redoState yields the restored value.
BundleStateLive ==
    proc.state # 0 => heap[proc.state] = heap[state]

\* C12. The promise of a wrapped function settles only when the procedure
\* is over and no invoker call it made is still suspended. A procedure
\* fails with the error it throws itself, with the error rollbackState or
\* redoState throws on an empty stack, and with the error of a failing
\* transition it awaits; the wrapper's promise is then rejected with that
\* same error, and otherwise fulfilled. The failing call leaves what it
\* leaves outside a procedure, and neither the failure nor the settling
\* changes the state or a stack: what was done before stays.
WrapperSettlement ==
    [][/\ WrapSettle
            => /\ proc.pc \in {"returned", "failed"}
               /\ timers = EmptyBag /\ microtasks = <<>>
               /\ last'.op = "wrapper"
               /\ IF proc.pc = "failed"
                  THEN /\ last'.failure = "reject"
                       /\ last'.error = proc.error
                       /\ proc.error # NoError
                  ELSE last'.failure = "none"
               /\ Triple(Manager') = Triple(Manager)
               /\ proc' = Idle
       /\ last'.op = "wrapper" => WrapSettle \/ UNCHANGED last
       /\ ProcThrow
            => /\ proc'.pc = "failed" /\ proc'.error = ProcedureError
               /\ Triple(Manager') = Triple(Manager)
       /\ (ProcRollbackState /\ stateHistory = <<>>)
            => /\ proc'.pc = "failed" /\ proc'.error = NoHistoryError
               /\ Triple(Manager') = Triple(Manager)
       /\ (ProcRedoState /\ redoStack = <<>>)
            => /\ proc'.pc = "failed" /\ proc'.error = NoRedoError
               /\ Triple(Manager') = Triple(Manager)
       /\ \A name \in Names :
             LET fn == Lookup(transitions, name) IN
             /\ (ProcTransition(name) /\ fn = Undefined)
                  => /\ proc'.pc = "failed"
                     /\ proc'.error = UnknownTransitionError(name)
                     /\ Triple(Manager') = Triple(Manager)
             /\ (ProcTransition(name) /\ fn # Undefined
                    /\ Completion(fn) = "throw")
                  => /\ proc'.pc = "failed" /\ proc'.error = ErrorOf(fn)
                     /\ heap'[state'] = SyncAssign(fn, heap[state])
                     /\ Fields(heap', stateHistory') = Fields(heap, stateHistory)
                     /\ Fields(heap', redoStack') = Fields(heap, redoStack)
       /\ (Resume /\ proc.pc = "awaiting"
              /\ Head(microtasks).inner = "rejected")
            => /\ proc'.pc = "failed"
               /\ proc'.error = ErrorOf(Head(microtasks).fn)
               /\ Triple(Manager') = Triple(Manager)
       /\ proc.pc = "failed"
            => /\ WrapSettle
               /\ last'.failure = "reject" /\ last'.error = proc.error]_vars

\* A procedure saved, awaited eat and then rest, and called redoState on
\* the empty redo stack: the wrapper's promise is rejected with the error
\* of redoState, and the snapshot and what eat and rest assigned are kept.
WrapperSettlementWitness ==
    /\ last = [op |-> "wrapper", failure |-> "reject", error |-> NoRedoError]
    /\ proc = Idle
    /\ heap[state] = [hunger |-> "satisfied", energy |-> "high"]
    /\ Len(stateHistory) = 1
    /\ heap[Top(stateHistory)] = initialState

\* C20. The invoker of a bundle hands the transition function the object
\* that is the manager's state when the invoker is called: the function
\* assigns to that object, the timer callback of an asynchronous one
\* holds it, and the object that was the state when the bundle and its
\* invoker were created, if it is another one, is left as it was.
InvokerUsesCurrentState ==
    [][\A name \in Names :
          LET fn == Lookup(transitions, name) IN
          (ProcTransition(name) /\ fn # Undefined)
             => /\ heap'[state'] = SyncAssign(fn, heap[state])
                /\ name = "eat" => heap'[state'].hunger = "satisfied"
                /\ Completion(fn) = "promise"
                     => [fn |-> fn, obj |-> state'] \in BagToSet(timers')
                /\ proc.state # state
                     => heap'[proc'.state] = heap[proc.state]]_vars

\* A procedure called rollbackState and then awaits eat: the state, a
\* copy of the snapshot made after the bundle was built, shows satisfied;
\* the object the bundle was built with still shows hungry.
InvokerUsesCurrentStateWitness ==
    /\ proc.pc = "awaiting"
    /\ last = Completed("transition")
    /\ proc.state # state
    /\ redoStack # <<>>
    /\ heap[state].hunger = "satisfied"
    /\ heap[proc.state].hunger = "hungry"

\* What the caller and the second manager own.
Outside ==
    <<IF objects.initialState = 0 THEN 0 ELSE heap[objects.initialState],
      IF objects.other = 0 THEN 0 ELSE heap[objects.other],
      objects.transitions>>

\* What the manager owns and what its callers see of it.
Inside == <<Triple(Manager), transitions, last, microtasks>>

\* C13. The manager shares no top-level storage with the constructor's
\* arguments: its state object is neither the caller's initial-state
\* object nor the state object of a second manager built with the same
\* arguments, and its registry is not the caller's registry object. So a
\* step that changes a key of the caller's initial-state object or of its
\* registry, or the state of the second manager, changes neither the
\* state, the stacks nor the registry of the manager, and a step of the
\* manager changes none of those three.
ConstructorCopies ==
    /\ Cardinality({state, objects.initialState, objects.other}) = 3
    /\ ~objects.shared
    /\ [][/\ Outside' # Outside => Inside' = Inside
          /\ ((\E w \in Writes : CallerWrites(w)) \/ OtherTransition)
                => /\ Inside' = Inside
                   /\ \A name \in Names :
                         Lookup(transitions', name) = Lookup(transitions, name)
          /\ Cardinality({state', objects'.initialState, objects'.other}) = 3
         ]_vars

\* The caller changed hunger in its object and added fly to its registry,
\* the second manager ran eat, and the first manager, after a save, an eat
\* and a rollback, shows the initial state and rejects fly as undefined.
ConstructorCopiesWitness ==
    /\ objects.initialState # 0
    /\ heap[objects.initialState].hunger = "satisfied"
    /\ heap[objects.other].hunger = "satisfied"
    /\ "fly" \in DOMAIN objects.transitions
    /\ last = Rejected("transition", UnknownTransitionError("fly"))
    /\ heap[state] = initialState
    /\ redoStack # <<>>
    /\ heap[Top(redoStack)].hunger = "satisfied"

\* A manager without its debug flag and its console output.
Functional(m) == [m EXCEPT !.debug = FALSE, !.console = <<>>]

\* C15. The debug flag has no functional effect. In every state a manager
\* reaches with either value of the flag, each operation, saveState,
\* rollbackState, redoState, the invoker up to its await and its
\* continuation, leaves the same state, stacks and error with the flag on
\* as with the flag off, so two managers that differ in the flag only and
\* get the same calls stay equal call after call; only the console
\* differs, and with the flag off nothing is written to it.
DebugHasNoEffect ==
    LET on == [Manager EXCEPT !.debug = TRUE]
        off == [Manager EXCEPT !.debug = FALSE]
    IN /\ Functional(saveState(on)) = Functional(saveState(off))
       /\ Functional(rollbackState(on)) = Functional(rollbackState(off))
       /\ Functional(redoState(on)) = Functional(redoState(off))
       /\ \A name \in Names :
             LET fn == Lookup(transitions, name) IN
             fn # Undefined
                => Functional(Applied(on, fn)) = Functional(Applied(off, fn))
       /\ microtasks # <<>>
             => Functional(Continued(on, Head(microtasks)))
                   = Functional(Continued(off, Head(microtasks)))
       /\ saveState(off).console = <<>>
       /\ rollbackState(off).console = <<>>
       /\ redoState(off).console = <<>>
       /\ saveState(on).console # <<>>
       /\ ~debug => console = <<>>

\* With debug on, redoState threw on the redo stack a saveState had
\* cleared, and logged the message before it threw.
DebugHasNoEffectWitness ==
    /\ debug
    /\ console = <<NoRedoError>>
    /\ last = Threw("redoState", NoRedoError)
    /\ Len(stateHistory) > 0
    /\ heap[state].hunger = "satisfied"

\* The contents of the nested object the record refers to.
Stomach(nh, rec) == nh[rec.stomach]

\* C17. Shallow-copy boundary: the state and every snapshot refer to the
\* same nested object. When feast fills it in place, every snapshot on
\* the undo and the redo stack shows the new contents too; a
\* rollbackState that succeeds restores the top-level fields the state
\* had at the save, and leaves the contents of the nested object as they
\* were just before the rollback, not as they were at the save.
ShallowCopyBoundary ==
    [][/\ (Transition("feast") /\ last'.failure = "none")
            => /\ Stomach(nested', heap'[state']) = "meal"
               /\ \A r \in Range(stateHistory') \cup Range(redoStack') :
                     Stomach(nested', heap'[r]) = "meal"
               /\ \A r \in Range(stateHistory') \cup Range(redoStack') :
                     heap'[r].hunger = heap[r].hunger
       /\ (RollbackState /\ stateHistory # <<>>)
            => /\ heap'[state'] = Top(presave)
               /\ Stomach(nested', heap'[state']) = Stomach(nested, heap[state])
               /\ Stomach(nested, heap[Top(stateHistory)])
                     = Stomach(nested, heap[state])]_vars

\* After a save, a feast and a rollback: hunger is hungry again, as at
\* the save, the stomach still holds the meal, and the snapshot the
\* rollback pushed on the redo stack shows satisfied.
ShallowCopyBoundaryWitness ==
    /\ last = Completed("rollbackState")
    /\ heap[state].hunger = "hungry"
    /\ Stomach(nested, heap[state]) = "meal"
    /\ redoStack # <<>>
    /\ heap[Top(redoStack)].hunger = "satisfied"

\* C21. Redo depth: in every reachable state the redo stack holds as many
\* snapshots as rollbackState calls succeeded minus redoState calls
\* succeeded since the latest saveState, or since construction when there
\* was none; so it is empty at construction and whenever no rollbackState
\* has succeeded since the latest saveState.
RedoDepth ==
    /\ Len(redoStack) = rolledBack
    /\ rolledBack >= 0
    /\ last.op \in {"new", "saveState"} => redoStack = <<>>

\* Since the latest of two saves, rollbackState succeeded twice and
\* redoState once: one snapshot is on the redo stack.
RedoDepthWitness ==
    /\ last = Completed("redoState")
    /\ rolledBack = 1
    /\ Len(redoStack) = 1
    /\ Len(stateHistory) = 1
    /\ heap[Top(redoStack)] # heap[state]

====
